---------------------------- MODULE Spec2Model ----------------------------
(***************************************************************************)
(* Husband's Games: the React client of src/src/App.js as a state machine. *)
(*                                                                         *)
(* App.js holds the component in two variants: the HEAD side (lines 1-818, *)
(* AddGameModal / EditGameModal / window.confirm) and the d2bc7a6 side of  *)
(* the merge (lines 819-2017, GameModal / handleSaveGame /                 *)
(* DeleteConfirmModal).  The variable `variant` says which one runs.       *)
(*                                                                         *)
(* JavaScript values are tagged one-field records: [s |-> chars] a string  *)
(* (a sequence of one-character strings), [n |-> h] a number in hundredths *)
(* (21.26 is [n |-> 2126]), [b |-> x] a boolean, Null, Undefined, NaN.     *)
(* A JavaScript object is a sequence of <<key, value>> pairs in insertion  *)
(* order.                                                                  *)
(***************************************************************************)
EXTENDS Integers, Sequences, FiniteSets, TLC

-----------------------------------------------------------------------------
(* Bounds of the model *)

\* requests (listing, login, create, update, delete) issued in one run, with the
\* files exported and the heading clicks the sort configuration takes
MaxReq == 3
\* requests outstanding at the same time
MaxInflight == 2
\* requests issued in one run in which the table is sorted
MaxSortReq == 2
\* records of a game table that is sorted and exported
MaxRecords == 3
\* files exported in one run
MaxExports == 2

-----------------------------------------------------------------------------
(* JavaScript values *)

Null == [null |-> TRUE]
Undefined == [undefined |-> TRUE]
NaN == [nan |-> TRUE]
Str(cs) == [s |-> cs]
Num(h) == [n |-> h]
Bool(x) == [b |-> x]

IsStr(v) == DOMAIN v = {"s"}
IsNum(v) == DOMAIN v = {"n"}
IsBool(v) == DOMAIN v = {"b"}
IsNullish(v) == v = Null \/ v = Undefined

\* ToBoolean: what `v ? a : b`, `v || w` and Boolean(v) test
Truthy(v) ==
  IF IsStr(v) THEN v.s # <<>>
  ELSE IF IsNum(v) THEN v.n # 0
  ELSE IF IsBool(v) THEN v.b
  ELSE DOMAIN v = {"o"}

\* a || b
OrElse(a, b) == IF Truthy(a) THEN a ELSE b

DigitChars == <<"0", "1", "2", "3", "4", "5", "6", "7", "8", "9">>
DigitChar(d) == DigitChars[d + 1]
IsDigit(c) == \E d \in 0..9 : DigitChars[d + 1] = c
DigitVal(c) == CHOOSE d \in 0..9 : DigitChars[d + 1] = c

RECURSIVE Digits(_)
Digits(k) == IF k < 10 THEN <<DigitChar(k)>>
             ELSE Digits(k \div 10) \o <<DigitChar(k % 10)>>

\* String(x) of a non-negative number: no trailing zeros, no point for an integer
NumberToString(h) ==
  LET w == h \div 100
      f == h % 100
  IN  IF f = 0 THEN Digits(w)
      ELSE IF f % 10 = 0 THEN Digits(w) \o <<".", DigitChar(f \div 10)>>
      ELSE Digits(w) \o <<".", DigitChar(f \div 10), DigitChar(f % 10)>>

\* String(v)
StringOf(v) ==
  IF IsNum(v) THEN Str(NumberToString(v.n))
  ELSE IF v = Null THEN Str(<<"null">>)
  ELSE IF v = Undefined THEN Str(<<"undefined">>)
  ELSE IF v = NaN THEN Str(<<"NaN">>)
  ELSE IF IsBool(v) THEN Str(<<IF v.b THEN "true" ELSE "false">>)
  ELSE v

RECURSIVE SkipSpaces(_)
SkipSpaces(cs) == IF cs # <<>> /\ Head(cs) = " " THEN SkipSpaces(Tail(cs)) ELSE cs

RECURSIVE DropTrailingSpaces(_)
DropTrailingSpaces(cs) ==
  IF cs # <<>> /\ cs[Len(cs)] = " "
  THEN DropTrailingSpaces(SubSeq(cs, 1, Len(cs) - 1)) ELSE cs

\* String.prototype.trim
Trim(v) == Str(DropTrailingSpaces(SkipSpaces(v.s)))

\* the longest prefix of digits, and its value
RECURSIVE LeadingDigits(_)
LeadingDigits(cs) ==
  IF cs # <<>> /\ IsDigit(Head(cs)) THEN <<Head(cs)>> \o LeadingDigits(Tail(cs))
  ELSE <<>>

RECURSIVE DigitsValue(_)
DigitsValue(ds) ==
  IF ds = <<>> THEN 0
  ELSE 10 * DigitsValue(SubSeq(ds, 1, Len(ds) - 1)) + DigitVal(ds[Len(ds)])

\* parseInt(string): leading white space skipped, then the digits; NaN without one
ParseInt(v) ==
  LET ds == LeadingDigits(SkipSpaces(v.s))
  IN  IF ds = <<>> THEN NaN ELSE Num(100 * DigitsValue(ds))

\* parseFloat(string): digits, then optionally a point and digits (two are kept:
\* the price input has step 0.01)
ParseFloat(v) ==
  LET cs == SkipSpaces(v.s)
      ds == LeadingDigits(cs)
      rest == SubSeq(cs, Len(ds) + 1, Len(cs))
      fs == IF rest # <<>> /\ Head(rest) = "." THEN LeadingDigits(Tail(rest)) ELSE <<>>
      f1 == IF Len(fs) >= 1 THEN DigitVal(fs[1]) ELSE 0
      f2 == IF Len(fs) >= 2 THEN DigitVal(fs[2]) ELSE 0
  IN  IF ds = <<>> /\ fs = <<>> THEN NaN
      ELSE Num(100 * DigitsValue(ds) + 10 * f1 + f2)

-----------------------------------------------------------------------------
(* JavaScript objects: sequences of <<key, value>> in insertion order *)

\* an object is [o |-> pairs], so that it compares with Null
Obj(pairs) == [o |-> pairs]
IsObj(v) == DOMAIN v = {"o"}

Keys(x) == [i \in 1..Len(x.o) |-> x.o[i][1]]
HasKey(x, k) == \E i \in 1..Len(x.o) : x.o[i][1] = k

\* x[k]
Get(x, k) == IF HasKey(x, k) THEN x.o[CHOOSE i \in 1..Len(x.o) : x.o[i][1] = k][2]
             ELSE Undefined

\* x[k] = v: an existing key keeps its place, a new one goes last
Put(x, k, v) ==
  IF HasKey(x, k)
  THEN Obj([i \in 1..Len(x.o) |-> IF x.o[i][1] = k THEN <<k, v>> ELSE x.o[i]])
  ELSE Obj(Append(x.o, <<k, v>>))

RECURSIVE PairsWithout(_, _)
PairsWithout(ps, k) ==
  IF ps = <<>> THEN <<>>
  ELSE IF Head(ps)[1] = k THEN PairsWithout(Tail(ps), k)
  ELSE <<Head(ps)>> \o PairsWithout(Tail(ps), k)

\* delete x[k]
Without(x, k) == Obj(PairsWithout(x.o, k))

RECURSIVE JsonPairs(_)
JsonPairs(ps) ==
  IF ps = <<>> THEN <<>>
  ELSE IF Head(ps)[2] = Undefined THEN JsonPairs(Tail(ps))
  ELSE <<<<Head(ps)[1], IF Head(ps)[2] = NaN THEN Null ELSE Head(ps)[2]>>>>
       \o JsonPairs(Tail(ps))

\* what the server reads of JSON.stringify(x), x a flat object: a key whose value
\* is undefined is not written, NaN is written as null
JsonBody(x) == Obj(JsonPairs(x.o))

-----------------------------------------------------------------------------
(* localStorage and the JSON text of the user object *)

\* JSON.stringify(userData) as a sequence of characters (the key is one token)
JsonStringify(v) ==
  IF v = Null THEN <<"null">>
  ELSE IF v = Undefined THEN <<"undefined">>
  ELSE <<"{", "\"name\"", ":", "\"">> \o Get(v, "name").s \o <<"\"", "}">>

\* JSON.parse(text): [ok, value]; ok = FALSE is the SyntaxError it throws
JsonParse(text) ==
  LET k == Len(text)
  IN  IF text = <<"null">> THEN [ok |-> TRUE, value |-> Null]
      ELSE IF /\ k >= 6
              /\ text[1] = "{" /\ text[2] = "\"name\"" /\ text[3] = ":"
              /\ text[4] = "\"" /\ text[k - 1] = "\"" /\ text[k] = "}"
              /\ \A i \in 5..(k - 2) : text[i] \notin {"\"", "\\", "{", "}"}
      THEN [ok |-> TRUE, value |-> Obj(<<<<"name", Str(SubSeq(text, 5, k - 2))>>>>)]
      ELSE [ok |-> FALSE, value |-> Undefined]

\* localStorage.getItem answers null for a key that is absent
NoItem == Null
EmptyStorage == [admin_token |-> NoItem, admin_user |-> NoItem]

User1 == Obj(<<<<"name", Str(<<"a", "d">>)>>>>)
Token0 == Str(<<"t0">>)
Token1 == Str(<<"t1">>)
\* the bearer tokens the login endpoint hands out
Tokens == {Token1}
\* admin_user text that is no JSON: the text cut short
MalformedUser == Str(<<"{", "\"name\"">>)

\* the empty text '': falsy where it is tested; stored under a key, the key is
\* present
EmptyString == Str(<<>>)

\* what durable storage may hold when the page is opened
StoredTokens == {NoItem, EmptyString, Token0}
StoredUsers == {NoItem, EmptyString, Str(JsonStringify(User1)), MalformedUser}

-----------------------------------------------------------------------------
(* Game records, as the API returns them (column order of the game table) *)

\* the whole number k
Whole(k) == Num(100 * k)

Game(id, title, platform, year, genre, publisher, opened, price, region) ==
  Obj(<< <<"id", Whole(id)>>, <<"title", title>>, <<"platform", platform>>,
         <<"release_year", year>>, <<"genre", genre>>, <<"publisher", publisher>>,
         <<"opened", opened>>, <<"created_at", Str(<<"ts">>)>>,
         <<"price", price>>, <<"region", region>> >>)

Game1 == Game(1, Str(<<"D">>), Str(<<"P", "4">>), Whole(2020), Null, Str(<<"B">>),
              Bool(TRUE), Num(2126), Null)
\* the game table when the page is opened
InitialGames == <<Game1>>

\* records with what a CSV field has to escape: a title with a comma and double
\* quotes, a title with a line break; one record without the region column and
\* one with a column of its own
Game2 == Game(2, Str(<<"Z", ",", " ", "\"", "a", "\"">>), Str(<<"P", "4">>), Whole(2023),
              Null, Str(<<"B">>), Bool(FALSE), Num(500), Null)
Game3 == Obj(SubSeq(Game(3, Str(<<"B", "\n", "s">>), Str(<<"P", "4">>), Null,
                         Str(<<"s">>), Str(<<"B">>), Bool(TRUE), Null, Null).o, 1, 9))
Game4 == Obj(Append(Game(4, Str(<<"a">>), Str(<<"s">>), Whole(2020), Null, Null,
                         Bool(FALSE), Num(500), Str(<<"Z">>)).o,
                    <<"notes", Str(<<"a", " ", "s">>)>>))
GamePool == {Game1, Game2, Game3, Game4}

\* the game tables a listing may return: up to MaxRecords records of the pool, in
\* any order, none twice
GameTables ==
  UNION {{t \in [1..n -> GamePool] : \A i, j \in 1..n : i # j => t[i] # t[j]} :
         n \in 0..MaxRecords}

IdOf(g) == Get(g, "id")

\* the id of record g is x, as `game.id === x` and `game.id !== x` decide it
SameId(g, x) == IdOf(g) = x

-----------------------------------------------------------------------------
(* The forms: the gameData state of the modals and their handleSubmit *)

EmptyForm ==
  Obj(<< <<"title", EmptyString>>, <<"platform", EmptyString>>, <<"genre", EmptyString>>,
         <<"release_year", EmptyString>>, <<"price", EmptyString>>,
         <<"region", EmptyString>>, <<"publisher", EmptyString>>,
         <<"opened", Bool(FALSE)>> >>)

\* the effect that fills the edit form from the record being edited
Prefill(g) ==
  Obj(<< <<"title", OrElse(Get(g, "title"), EmptyString)>>,
         <<"platform", OrElse(Get(g, "platform"), EmptyString)>>,
         <<"genre", OrElse(Get(g, "genre"), EmptyString)>>,
         <<"release_year", IF Truthy(Get(g, "release_year"))
                           THEN StringOf(Get(g, "release_year")) ELSE EmptyString>>,
         <<"price", IF Truthy(Get(g, "price"))
                    THEN StringOf(Get(g, "price")) ELSE EmptyString>>,
         <<"region", OrElse(Get(g, "region"), EmptyString)>>,
         <<"publisher", OrElse(Get(g, "publisher"), EmptyString)>>,
         <<"opened", Bool(Truthy(Get(g, "opened")))>> >>)

\* the onChange handlers: setGameData({...gameData, field: value}), one per entry
RECURSIVE Typed(_, _)
Typed(form, script) ==
  IF script = <<>> THEN form
  ELSE Typed(Put(form, Head(script)[1], Head(script)[2]), Tail(script))

\* what the user types into the add form
AddScripts ==
  { << <<"title", Str(<<"Z">>)>>, <<"release_year", Str(<<"2", "0", "2", "3">>)>>,
       <<"price", Str(<<"4", "5", ".", "5", "8">>)>> >> }

\* what the user changes in the edit form of record g: the opened box alone; the
\* title blanked and some fields cleared; a new title with blanks around it and a
\* new price
EditScripts(g) ==
  { << <<"opened", Bool(~Truthy(Get(g, "opened")))>> >>,
    << <<"title", Str(<<" ">>)>>, <<"platform", EmptyString>>,
       <<"release_year", EmptyString>>, <<"price", EmptyString>> >>,
    << <<"title", Str(<<" ", "Z", " ">>)>>, <<"price", Str(<<"1", "0", ".", "5">>)>> >> }

\* the title input is `required`: the browser submits only a non-empty title
Submittable(form) == Get(form, "title") # EmptyString

YearOf(form) ==
  IF Truthy(Get(form, "release_year")) THEN ParseInt(Get(form, "release_year")) ELSE Null
PriceOf(form) ==
  IF Truthy(Get(form, "price")) THEN ParseFloat(Get(form, "price")) ELSE Null

\* AddGameModal.handleSubmit: {...gameData, release_year, price}
AddGameModal_processedData(form) ==
  Put(Put(form, "release_year", YearOf(form)), "price", PriceOf(form))

\* EditGameModal.handleSubmit: {...gameData, id, release_year, price}
EditGameModal_processedData(form, game) ==
  Put(Put(Put(form, "id", IdOf(game)), "release_year", YearOf(form)), "price", PriceOf(form))

\* GameModal.handleSubmit: text fields trimmed; the id added when editing
GameModal_processedData(form, game) ==
  LET p == Obj(<< <<"title", Trim(Get(form, "title"))>>,
                  <<"platform", Trim(Get(form, "platform"))>>,
                  <<"genre", Trim(Get(form, "genre"))>>,
                  <<"release_year", YearOf(form)>>,
                  <<"price", PriceOf(form)>>,
                  <<"region", Trim(Get(form, "region"))>>,
                  <<"publisher", Trim(Get(form, "publisher"))>>,
                  <<"opened", Bool(Truthy(Get(form, "opened")))>> >>)
  IN  IF Truthy(game) THEN Put(p, "id", IdOf(game)) ELSE p

-----------------------------------------------------------------------------
(* State *)

VARIABLES
  variant,        \* "HEAD" or "d2bc7a6": the side of the merge that runs
  phase,          \* "boot" before the mount effects, then "up", or "crashed"
  storage,        \* localStorage: admin_token, admin_user
  isAdmin, adminUser, adminToken,
  data, isLoading, error,
  sortConfig,     \* [key, direction]: the column the table is sorted by
  downloads,      \* the text of the files exportToCSV has handed to the browser
  showAdminLogin,
  loginError,     \* the error state of AdminLoginModal
  showAddModal, isAddingGame, showEditModal, isEditingGame, gameToEdit,
  showGameModal, showDeleteModal, isSavingGame, isDeletingGame,
  editingGame, deletingGame,
  inflight,       \* the requests issued and not yet answered to the client
  nreq,           \* how many requests were issued
  serverGames,    \* the game table of the API server
  nextId,         \* the id the server gives the next created record
  last            \* the step taken last, and its request

session == <<isAdmin, adminUser, adminToken, storage>>
core == <<data, isLoading, error>>
loginUi == <<showAdminLogin, loginError>>
headUi == <<showAddModal, isAddingGame, showEditModal, isEditingGame, gameToEdit>>
mergeUi == <<showGameModal, showDeleteModal, isSavingGame, isDeletingGame,
             editingGame, deletingGame>>
net == <<inflight, nreq>>
server == <<serverGames, nextId>>
vars == <<variant, phase, session, core, sortConfig, downloads, loginUi, headUi,
          mergeUi, net, server, last>>

Variants == {"HEAD", "d2bc7a6"}

-----------------------------------------------------------------------------
(* Requests *)

\* a request as fetch() sends it, with what the handler's closure holds: arg is
\* the handler's argument, cdata the `data` of the render the handler ran in;
\* alive: the component instance whose handler awaits the answer is still mounted
Request(rid, kind, auth, id, body, arg, cdata) ==
  [rid |-> rid, kind |-> kind, auth |-> auth, id |-> id, body |-> body,
   arg |-> arg, cdata |-> cdata, alive |-> TRUE,
   stage |-> "sent", status |-> "", resp |-> Undefined]

NoRequest == Request(0, "none", Undefined, Undefined, Undefined, Undefined, <<>>)

\* `Bearer ${adminToken}`
Bearer(token) == Str(<<"Bearer ">> \o StringOf(token).s)

Mutating == {"create", "update", "delete"}

\* the heading clicks it takes to bring the table to configuration config
Clicks(config) ==
  IF config.key = Null THEN 0 ELSE IF config.direction = "asc" THEN 1 ELSE 2

\* the bounds of a run: MaxReq requests, exported files and heading clicks its
\* sort configuration takes, in all, with MaxInflight requests outstanding
Events(config, files) == nreq + Clicks(config) + Len(files)

CanIssue ==
  /\ Events(sortConfig, downloads) < MaxReq
  /\ Cardinality(inflight) < MaxInflight

\* the record of a step: of a step that takes an answer, with its request; the
\* request a step issues is Issued
Step(op, r) == [op |-> op, req |-> r]
Issued == CHOOSE r \in inflight : r.rid = nreq

\* the returns of App with the error test moved ahead of the loading test
View_errorFirst ==
  IF phase = "crashed" THEN "crashed"
  ELSE IF Truthy(error) THEN "error"
  ELSE IF isLoading THEN "loading"
  ELSE "main"

\* which return of App the render takes
View ==
  IF phase = "crashed" THEN "crashed"
  ELSE IF isLoading THEN "loading"
  ELSE IF Truthy(error) THEN "error"
  ELSE "main"

\* the user can act on what the main return renders
Interactive == phase = "up" /\ View = "main"

\* the admin's controls rendered without the isAdmin test
AdminOnly_always == TRUE

\* {isAdmin && (...)}: what is rendered for the admin only
AdminOnly == isAdmin

-----------------------------------------------------------------------------
(* Start *)

Init ==
  /\ variant \in Variants
  /\ phase = "boot"
  /\ storage \in [admin_token : StoredTokens, admin_user : StoredUsers]
  /\ isAdmin = FALSE /\ adminUser = Null /\ adminToken = Null
  /\ data = <<>> /\ isLoading = TRUE /\ error = Null
  /\ sortConfig = [key |-> Null, direction |-> "asc"]
  /\ downloads = <<>>
  /\ showAdminLogin = FALSE /\ loginError = EmptyString
  /\ showAddModal = FALSE /\ isAddingGame = FALSE
  /\ showEditModal = FALSE /\ isEditingGame = FALSE /\ gameToEdit = Null
  /\ showGameModal = FALSE /\ showDeleteModal = FALSE
  /\ isSavingGame = FALSE /\ isDeletingGame = FALSE
  /\ editingGame = Null /\ deletingGame = Null
  /\ inflight = {} /\ nreq = 0
  /\ serverGames = InitialGames /\ nextId = Len(InitialGames) + 1
  /\ last = Step("init", NoRequest)

\* the stored text of the user kept as it is, not parsed
Restore_rawUser(st) ==
  LET savedToken == st.admin_token
      savedUser == st.admin_user
  IN  IF Truthy(savedToken) /\ Truthy(savedUser)
      THEN [token |-> savedToken, user |-> savedUser, admin |-> TRUE, threw |-> FALSE]
      ELSE [token |-> Null, user |-> Null, admin |-> FALSE, threw |-> FALSE]

\* the session-restore effect: [token, user, admin] as the setters leave them, and
\* threw = TRUE when JSON.parse throws out of the effect
Restore(st) ==
  LET savedToken == st.admin_token
      savedUser == st.admin_user
  IN  IF Truthy(savedToken) /\ Truthy(savedUser)
      THEN IF JsonParse(savedUser.s).ok
           THEN [token |-> savedToken, user |-> JsonParse(savedUser.s).value,
                 admin |-> TRUE, threw |-> FALSE]
           ELSE [token |-> savedToken, user |-> Null, admin |-> FALSE, threw |-> TRUE]
      ELSE [token |-> Null, user |-> Null, admin |-> FALSE, threw |-> FALSE]

\* the two mount effects: restore the session, then fetchGames().  An error thrown
\* out of an effect is caught by no boundary: React unmounts the application, and
\* no setter called afterwards changes anything that is rendered
Mount ==
  /\ phase = "boot"
  /\ LET r == Restore(storage)
         f == Request(nreq + 1, "fetch", Undefined, Undefined, Undefined, Undefined, <<>>)
     IN  /\ adminToken' = r.token
         /\ adminUser' = r.user
         /\ isAdmin' = r.admin
         /\ IF r.threw
            THEN /\ phase' = "crashed"
                 /\ UNCHANGED net
                 /\ last' = Step("crash", NoRequest)
            ELSE /\ phase' = "up"
                 /\ inflight' = inflight \cup {f}
                 /\ nreq' = nreq + 1
                 /\ last' = Step("mount", NoRequest)
  /\ isLoading' = TRUE
  /\ UNCHANGED <<variant, sortConfig, downloads, storage, data, error, loginUi, headUi, mergeUi, server>>

-----------------------------------------------------------------------------
(* The API server (spec section 6): it answers a request that was sent *)

Answer(r, stage, status, resp) ==
  [r EXCEPT !.stage = stage, !.status = status, !.resp = resp]

Sent(r) == r \in inflight /\ r.stage = "sent"

OnServer(id) == \E i \in 1..Len(serverGames) : SameId(serverGames[i], id)

BodyField(body, k) == IF HasKey(body, k) THEN Get(body, k) ELSE Null

\* POST /admin/games: the record the server stores and returns
ServerCreate(id, body) ==
  Game(id, BodyField(body, "title"), BodyField(body, "platform"),
       BodyField(body, "release_year"), BodyField(body, "genre"),
       BodyField(body, "publisher"), BodyField(body, "opened"),
       BodyField(body, "price"), BodyField(body, "region"))

UpdatableFields ==
  <<"title", "platform", "release_year", "genre", "publisher", "opened", "price",
    "region">>

RECURSIVE ApplyFields(_, _, _)
ApplyFields(g, body, fields) ==
  IF fields = <<>> THEN g
  ELSE ApplyFields(IF HasKey(body, Head(fields))
                   THEN Put(g, Head(fields), Get(body, Head(fields))) ELSE g,
                   body, Tail(fields))

\* PUT /admin/games/{id}: the fields of the body replace the stored ones
ServerUpdate(g, body) == ApplyFields(g, body, UpdatableFields)

StoredGame(id) == serverGames[CHOOSE i \in 1..Len(serverGames) : SameId(serverGames[i], id)]

\* a 2xx answer
ServerOk(r) ==
  /\ Sent(r)
  /\ \/ /\ r.kind = "fetch"
        /\ inflight' = (inflight \ {r}) \cup {Answer(r, "ok", "200", [a |-> serverGames])}
        /\ UNCHANGED server
     \/ /\ r.kind = "login"
        /\ \E token \in Tokens :
             inflight' = (inflight \ {r}) \cup
               {Answer(r, "ok", "200",
                       Obj(<< <<"access_token", token>>, <<"user", User1>> >>))}
        /\ UNCHANGED server
     \/ /\ r.kind = "create"
        /\ LET g == ServerCreate(nextId, JsonBody(r.body))
           IN  /\ serverGames' = Append(serverGames, g)
               /\ nextId' = nextId + 1
               /\ inflight' = (inflight \ {r}) \cup {Answer(r, "ok", "200", g)}
     \/ /\ r.kind = "update"
        /\ OnServer(r.id)
        /\ LET g == ServerUpdate(StoredGame(r.id), JsonBody(r.body))
           IN  /\ serverGames' = [i \in 1..Len(serverGames) |->
                                    IF SameId(serverGames[i], r.id) THEN g
                                    ELSE serverGames[i]]
               /\ inflight' = (inflight \ {r}) \cup {Answer(r, "ok", "200", g)}
        /\ UNCHANGED nextId
     \/ /\ r.kind = "delete"
        /\ OnServer(r.id)
        /\ serverGames' = SelectSeq(serverGames, LAMBDA g : ~SameId(g, r.id))
        /\ inflight' = (inflight \ {r}) \cup {Answer(r, "ok", "204", Undefined)}
        /\ UNCHANGED nextId
  /\ last' = Step("-", NoRequest)
  /\ UNCHANGED <<variant, sortConfig, downloads, phase, session, core, loginUi, headUi, mergeUi, nreq>>

\* the statuses of an answer that is not ok
ErrorStatuses(kind) == IF kind = "login" THEN {"401", "500"} ELSE {"500"}

\* a non-2xx answer (response.ok is false); its body is the text "err"
ServerRejects(r) ==
  /\ Sent(r)
  /\ \E status \in ErrorStatuses(r.kind) :
       inflight' = (inflight \ {r}) \cup {Answer(r, "status", status, Str(<<"err">>))}
  /\ last' = Step("-", NoRequest)
  /\ UNCHANGED <<variant, sortConfig, downloads, phase, session, core, loginUi, headUi, mergeUi, nreq, server>>

\* what response.json() reads: the kinds whose handler parses the answer's body
ParsesBody == {"fetch", "login", "create", "update"}

\* the SyntaxError of response.json() on a body that is no JSON
JsonSyntaxMessage == <<"Unexpected token '<', \"<html>\" is not valid JSON">>

\* a 2xx answer whose body is no JSON (the page of a proxy): response.ok is true
\* and response.json() rejects with a SyntaxError
ServerGarbles(r) ==
  /\ Sent(r) /\ r.kind \in ParsesBody
  /\ inflight' = (inflight \ {r}) \cup {Answer(r, "badjson", "200", Str(<<"<html>">>))}
  /\ last' = Step("-", NoRequest)
  /\ UNCHANGED <<variant, sortConfig, downloads, phase, session, core, loginUi, headUi, mergeUi, nreq, server>>

\* no answer at all: fetch() rejects with TypeError("Failed to fetch")
NetworkFails(r) ==
  /\ Sent(r)
  /\ inflight' = (inflight \ {r}) \cup {Answer(r, "neterr", "", Undefined)}
  /\ last' = Step("-", NoRequest)
  /\ UNCHANGED <<variant, sortConfig, downloads, phase, session, core, loginUi, headUi, mergeUi, nreq, server>>

Answered(r) == r \in inflight /\ r.stage # "sent" /\ phase = "up"

-----------------------------------------------------------------------------
(* The listing: fetchGames *)

FetchFailedMessage == Str(<<"Failed to load games data. Please try again later.">>)

\* the Retry button of the error panel: fetchGames() up to its await
Retry ==
  /\ phase = "up" /\ View = "error"
  /\ CanIssue
  /\ LET f == Request(nreq + 1, "fetch", Undefined, Undefined, Undefined, Undefined, <<>>)
     IN  /\ inflight' = inflight \cup {f}
         /\ nreq' = nreq + 1
         /\ last' = Step("retry", NoRequest)
  /\ isLoading' = TRUE
  /\ UNCHANGED <<variant, sortConfig, downloads, phase, session, data, error, loginUi, headUi, mergeUi, server>>

\* the answer added to the records already held
fetchGames_data_merged(gamesData) == data \o gamesData.a

\* what setData(gamesData) stores
fetchGames_data(gamesData) == gamesData.a

\* fetchGames() after its await, the answer being ok
FetchOk(r) ==
  /\ Answered(r) /\ r.kind = "fetch" /\ r.stage = "ok"
  /\ data' = fetchGames_data(r.resp)
  /\ error' = Null
  /\ isLoading' = FALSE
  /\ inflight' = inflight \ {r}
  /\ last' = Step("FetchOk", r)
  /\ UNCHANGED <<variant, sortConfig, downloads, phase, session, loginUi, headUi, mergeUi, nreq, server>>

\* fetchGames() after its await, the answer being an error status or none
FetchFailed(r) ==
  /\ Answered(r) /\ r.kind = "fetch" /\ r.stage # "ok"
  /\ error' = FetchFailedMessage
  /\ isLoading' = FALSE
  /\ inflight' = inflight \ {r}
  /\ last' = Step("FetchFailed", r)
  /\ UNCHANGED <<variant, sortConfig, downloads, phase, session, data, loginUi, headUi, mergeUi, nreq, server>>

-----------------------------------------------------------------------------
(* The session: login, logout *)

InvalidCredentials == Str(<<"Invalid admin credentials">>)
FailedToFetch == Str(<<"Failed to fetch">>)

\* the Admin Login button, shown to a visitor
OpenLogin ==
  /\ Interactive /\ ~isAdmin
  /\ showAdminLogin' = TRUE
  /\ last' = Step("-", NoRequest)
  /\ UNCHANGED <<variant, sortConfig, downloads, phase, session, core, loginError, headUi, mergeUi, net, server>>

\* the close button of the login dialog
CloseLogin ==
  /\ Interactive /\ showAdminLogin
  /\ showAdminLogin' = FALSE
  /\ last' = Step("-", NoRequest)
  /\ UNCHANGED <<variant, sortConfig, downloads, phase, session, core, loginError, headUi, mergeUi, net, server>>

\* AdminLoginModal.handleSubmit up to its await; the button is disabled={isLoading}
SubmitLogin ==
  /\ Interactive /\ showAdminLogin /\ ~isLoading
  /\ CanIssue
  /\ LET q == Request(nreq + 1, "login", Undefined, Undefined, Undefined, Undefined, <<>>)
     IN  /\ inflight' = inflight \cup {q}
         /\ nreq' = nreq + 1
         /\ last' = Step("SubmitLogin", NoRequest)
  /\ loginError' = EmptyString
  /\ UNCHANGED <<variant, sortConfig, downloads, phase, session, core, showAdminLogin, headUi, mergeUi, server>>

\* the user written without JSON.stringify: setItem stores String(userData)
handleAdminLogin_storage_unencoded(authToken, userData) ==
  [admin_token |-> StringOf(authToken), admin_user |-> Str(<<"[object Object]">>)]

\* the token written, the user not
handleAdminLogin_storage_tokenOnly(authToken, userData) ==
  [storage EXCEPT !.admin_token = StringOf(authToken)]

\* what handleAdminLogin writes to localStorage
handleAdminLogin_storage(authToken, userData) ==
  [admin_token |-> StringOf(authToken), admin_user |-> Str(JsonStringify(userData))]

\* handleSubmit after its await, the answer being ok: onLogin (handleAdminLogin),
\* then onClose
LoginOk(r) ==
  /\ Answered(r) /\ r.kind = "login" /\ r.stage = "ok"
  /\ adminToken' = Get(r.resp, "access_token")
  /\ adminUser' = Get(r.resp, "user")
  /\ isAdmin' = TRUE
  /\ storage' = handleAdminLogin_storage(Get(r.resp, "access_token"), Get(r.resp, "user"))
  /\ showAdminLogin' = FALSE
  /\ inflight' = inflight \ {r}
  /\ last' = Step("LoginOk", r)
  /\ UNCHANGED <<variant, sortConfig, downloads, phase, core, loginError, headUi, mergeUi, nreq, server>>

\* the message handleSubmit's catch shows: that of the Error thrown for a status
\* that is not ok, of the SyntaxError of response.json(), or of the TypeError of a
\* fetch that got no answer
AdminLoginModal_message(r) ==
  IF r.stage = "status" THEN InvalidCredentials
  ELSE IF r.stage = "badjson" THEN Str(JsonSyntaxMessage)
  ELSE FailedToFetch

\* AdminLoginModal is part of the main return only: when App returns the error
\* panel the dialog is unmounted, its state is lost, and the setError of a
\* handleSubmit still awaiting its answer changes nothing
LoginModalMounted(r) == r.alive

\* the requests outstanding once the main return has given way to the error panel
Unmounted(reqs) ==
  {IF q.kind = "login" THEN [q EXCEPT !.alive = FALSE] ELSE q : q \in reqs}

\* handleSubmit after its await, the login having failed
LoginFailed(r) ==
  /\ Answered(r) /\ r.kind = "login" /\ r.stage # "ok"
  /\ loginError' = IF LoginModalMounted(r) THEN AdminLoginModal_message(r) ELSE loginError
  /\ inflight' = inflight \ {r}
  /\ last' = Step("LoginFailed", r)
  /\ UNCHANGED <<variant, sortConfig, downloads, phase, session, core, showAdminLogin, headUi, mergeUi, nreq,
                 server>>

\* admin_user left behind
handleAdminLogout_storage_tokenOnly(st) == [st EXCEPT !.admin_token = NoItem]

\* what handleAdminLogout leaves in localStorage
handleAdminLogout_storage(st) ==
  [st EXCEPT !.admin_token = NoItem, !.admin_user = NoItem]

\* the logout that forgets setIsAdmin(false)
handleAdminLogout_staysAdmin ==
  /\ Interactive /\ isAdmin
  /\ adminToken' = Null
  /\ adminUser' = Null
  /\ storage' = handleAdminLogout_storage(storage)
  /\ last' = Step("Logout", NoRequest)
  /\ UNCHANGED <<variant, sortConfig, downloads, phase, isAdmin, core, loginUi, headUi,
                 mergeUi, net, server>>

\* the Logout button, shown to the admin
handleAdminLogout ==
  /\ Interactive /\ isAdmin
  /\ adminToken' = Null
  /\ adminUser' = Null
  /\ isAdmin' = FALSE
  /\ storage' = handleAdminLogout_storage(storage)
  /\ last' = Step("Logout", NoRequest)
  /\ UNCHANGED <<variant, sortConfig, downloads, phase, core, loginUi, headUi, mergeUi, net, server>>

-----------------------------------------------------------------------------
(* Reconciling the local record set with an answer.  Each works on the `data` of *)
(* the render its handler ran in, which the request carries as cdata.           *)

\* setData([...data, newGame])
AppendGame(cdata, newGame) == Append(cdata, newGame)

\* the updated record added after the records, the old one kept
ReplaceGame_appended(cdata, updatedGame) == Append(cdata, updatedGame)

\* setData(data.map(game => game.id === updatedGame.id ? updatedGame : game))
ReplaceGame(cdata, updatedGame) ==
  [i \in 1..Len(cdata) |->
     IF SameId(cdata[i], IdOf(updatedGame)) THEN updatedGame ELSE cdata[i]]

\* setData(data.filter(game => game.id !== gameId))
RemoveGame(cdata, gameId) == SelectSeq(cdata, LAMBDA g : ~SameId(g, gameId))

\* a request of the admin, as the handlers build it in the current render
AdminRequest(kind, id, body, arg) ==
  Request(nreq + 1, kind, Bearer(adminToken), id, body, arg, data)

Rows == {data[i] : i \in 1..Len(data)}

-----------------------------------------------------------------------------
(* Sorting the table: handleSort, sortedData *)

\* the characters of the model's strings in the order of their code units
CodeUnits ==
  <<"\n", " ", "\"", ",", ".", "0", "1", "2", "3", "4", "5", "6", "7", "8", "9",
    "B", "D", "P", "Z", "a", "d", "s", "t">>
CodeUnit(c) == CHOOSE i \in 1..Len(CodeUnits) : CodeUnits[i] = c

\* x < y of two strings: by code units, a proper prefix first
RECURSIVE StringLess(_, _)
StringLess(x, y) ==
  IF y = <<>> THEN FALSE
  ELSE IF x = <<>> THEN TRUE
  ELSE IF Head(x) = Head(y) THEN StringLess(Tail(x), Tail(y))
  ELSE CodeUnit(Head(x)) < CodeUnit(Head(y))

\* Number(v): null is 0, a boolean 0 or 1, a string its numeric value (0 when
\* blank) or NaN, undefined and an object NaN
ToNumber(v) ==
  IF IsNum(v) THEN v
  ELSE IF v = Null THEN Num(0)
  ELSE IF IsBool(v) THEN (IF v.b THEN Num(100) ELSE Num(0))
  ELSE IF IsStr(v)
  THEN LET t == Trim(v)
       IN  IF t.s = <<>> THEN Num(0)
           ELSE IF ParseFloat(t) # NaN /\ NumberToString(ParseFloat(t).n) = t.s
           THEN ParseFloat(t)
           ELSE NaN
  ELSE NaN

\* a < b: two strings by code units, any other pair as numbers; false with a NaN
LessThan(a, b) ==
  IF IsStr(a) /\ IsStr(b) THEN StringLess(a.s, b.s)
  ELSE LET x == ToNumber(a)
           y == ToNumber(b)
       IN  x # NaN /\ y # NaN /\ x.n < y.n

\* the comparator with the direction looked at for `<` alone
Compare_greaterAscending(a, b, config) ==
  LET aValue == Get(a, config.key.s[1])
      bValue == Get(b, config.key.s[1])
  IN  IF LessThan(aValue, bValue) THEN (IF config.direction = "asc" THEN -1 ELSE 1)
      ELSE IF LessThan(bValue, aValue) THEN 1
      ELSE 0

\* the comparator sortedData hands to sort: -1, 0 or 1
Compare(a, b, config) ==
  LET aValue == Get(a, config.key.s[1])
      bValue == Get(b, config.key.s[1])
  IN  IF LessThan(aValue, bValue) THEN (IF config.direction = "asc" THEN -1 ELSE 1)
      ELSE IF LessThan(bValue, aValue) THEN (IF config.direction = "asc" THEN 1 ELSE -1)
      ELSE 0

\* Array.prototype.sort as the engine runs it on a short array (V8: the run at
\* the head is counted, reversed when it strictly descends, and the rest is
\* placed by binary insertion)
RECURSIVE RunEnd(_, _, _, _)
RunEnd(arr, i, descending, config) ==
  IF i > Len(arr) THEN i - 1
  ELSE LET order == Compare(arr[i], arr[i - 1], config)
       IN  IF (descending /\ order >= 0) \/ (~descending /\ order < 0) THEN i - 1
           ELSE RunEnd(arr, i + 1, descending, config)

Reversed(arr) == [i \in 1..Len(arr) |-> arr[Len(arr) + 1 - i]]

\* the array with its first run made ascending, and the length of that run
CountAndMakeRun(arr, config) ==
  LET descending == Compare(arr[2], arr[1], config) < 0
      n == RunEnd(arr, 3, descending, config)
  IN  [arr |-> IF descending
               THEN Reversed(SubSeq(arr, 1, n)) \o SubSeq(arr, n + 1, Len(arr))
               ELSE arr,
       run |-> n]

\* where the pivot goes among arr[left..right-1], which is sorted
RECURSIVE InsertionPoint(_, _, _, _, _)
InsertionPoint(arr, pivot, left, right, config) ==
  IF left >= right THEN left
  ELSE LET mid == left + ((right - left) \div 2)
       IN  IF Compare(pivot, arr[mid], config) < 0
           THEN InsertionPoint(arr, pivot, left, mid, config)
           ELSE InsertionPoint(arr, pivot, mid + 1, right, config)

RECURSIVE BinaryInsertionSort(_, _, _)
BinaryInsertionSort(arr, start, config) ==
  IF start > Len(arr) THEN arr
  ELSE LET pivot == arr[start]
           left == InsertionPoint(arr, pivot, 1, start, config)
           placed == SubSeq(arr, 1, left - 1) \o <<pivot>> \o SubSeq(arr, left, start - 1)
                     \o SubSeq(arr, start + 1, Len(arr))
       IN  BinaryInsertionSort(placed, start + 1, config)

ArraySort(arr, config) ==
  IF Len(arr) < 2 THEN arr
  ELSE LET r == CountAndMakeRun(arr, config)
       IN  BinaryInsertionSort(r.arr, r.run + 1, config)

\* the rows of the table: data itself without a sort key, else a sorted copy
sortedData_of(records, config) ==
  IF ~Truthy(config.key) THEN records ELSE ArraySort(records, config)

sortedData == sortedData_of(data, sortConfig)

\* [...new Set(data.flatMap(game => Object.keys(game)))]: the keys in the order
\* they are first met
RECURSIVE Distinct(_)
Distinct(ks) ==
  IF ks = <<>> THEN <<>>
  ELSE LET front == Distinct(SubSeq(ks, 1, Len(ks) - 1))
           k == ks[Len(ks)]
       IN  IF \E i \in 1..Len(front) : front[i] = k THEN front ELSE Append(front, k)

RECURSIVE AllKeys(_)
AllKeys(records) ==
  IF records = <<>> THEN <<>> ELSE Keys(Head(records)) \o AllKeys(Tail(records))

\* Object.keys of the first record
getColumnHeaders_firstRecord == IF Len(data) = 0 THEN <<>> ELSE Keys(data[1])

getColumnHeaders == IF Len(data) = 0 THEN <<>> ELSE Distinct(AllKeys(data))

\* the direction flipped whatever column is clicked
handleSort_config_flip(config, key) ==
  [key |-> key, direction |-> IF config.direction = "asc" THEN "desc" ELSE "asc"]

\* a third click on the column taking the sort away
handleSort_config_cycle(config, key) ==
  IF config.key = key /\ config.direction = "desc"
  THEN [key |-> Null, direction |-> "asc"]
  ELSE [key |-> key,
        direction |-> IF config.key = key /\ config.direction = "asc" THEN "desc"
                      ELSE "asc"]

\* what handleSort(key) hands to setSortConfig
handleSort_config(config, key) ==
  [key |-> key,
   direction |-> IF config.key = key /\ config.direction = "asc" THEN "desc" ELSE "asc"]

\* data.sort(...) without the copy: the click reorders the records held
handleSort_inPlace(header) ==
  /\ Interactive /\ Len(data) > 0
  /\ Events(handleSort_config(sortConfig, Str(<<header>>)), downloads) <= MaxReq
  /\ \E i \in 1..Len(getColumnHeaders) : getColumnHeaders[i] = header
  /\ sortConfig' = handleSort_config(sortConfig, Str(<<header>>))
  /\ data' = sortedData_of(data, handleSort_config(sortConfig, Str(<<header>>)))
  /\ last' = Step("handleSort", [NoRequest EXCEPT !.arg = Str(<<header>>)])
  /\ UNCHANGED <<variant, downloads, phase, session, isLoading, error, loginUi, headUi,
                 mergeUi, net, server>>

\* a click on a heading of the table, which is rendered when there are records
handleSort(header) ==
  /\ Interactive /\ Len(data) > 0
  /\ Events(handleSort_config(sortConfig, Str(<<header>>)), downloads) <= MaxReq
  /\ \E i \in 1..Len(getColumnHeaders) : getColumnHeaders[i] = header
  /\ sortConfig' = handleSort_config(sortConfig, Str(<<header>>))
  /\ last' = Step("handleSort", [NoRequest EXCEPT !.arg = Str(<<header>>)])
  /\ UNCHANGED <<variant, downloads, phase, session, core, loginUi, headUi, mergeUi, net,
                 server>>

-----------------------------------------------------------------------------
(* The CSV export: exportToCSV.  A text is a sequence of characters; a key, and *)
(* a token such as "true", stands for a run of ordinary characters.             *)

\* value.includes(c)
Includes(v, c) == \E i \in 1..Len(v.s) : v.s[i] = c

\* value.replace(/"/g, '""')
RECURSIVE DoubleQuotes(_)
DoubleQuotes(cs) ==
  IF cs = <<>> THEN <<>>
  ELSE (IF Head(cs) = "\"" THEN <<"\"", "\"">> ELSE <<Head(cs)>>) \o DoubleQuotes(Tail(cs))

\* every string value wrapped in double quotes
exportToCSV_field_alwaysQuoted(item, key) ==
  LET value == Get(item, key)
  IN  IF IsStr(value) THEN Str(<<"\"">> \o DoubleQuotes(value.s) \o <<"\"">>)
      ELSE IF IsNullish(value) THEN EmptyString
      ELSE value

\* the callback of allKeys.map: what one column of one record gives
exportToCSV_field(item, key) ==
  LET value == Get(item, key)
  IN  IF IsStr(value) /\ (Includes(value, ",") \/ Includes(value, "\""))
      THEN Str(<<"\"">> \o DoubleQuotes(value.s) \o <<"\"">>)
      ELSE IF IsNullish(value) THEN EmptyString
      ELSE value

\* Array.prototype.join: null and undefined give nothing, any other element its
\* String()
RECURSIVE ArrayJoin(_, _)
ArrayJoin(arr, separator) ==
  IF arr = <<>> THEN <<>>
  ELSE LET first == IF IsNullish(Head(arr)) THEN <<>> ELSE StringOf(Head(arr)).s
       IN  IF Len(arr) = 1 THEN first
           ELSE first \o <<separator>> \o ArrayJoin(Tail(arr), separator)

\* allKeys: [...new Set(data.flatMap(item => Object.keys(item)))]
exportToCSV_allKeys(records) == Distinct(AllKeys(records))

\* rows: one text per record
exportToCSV_rows(records) ==
  LET allKeys == exportToCSV_allKeys(records)
  IN  [r \in 1..Len(records) |->
         Str(ArrayJoin([c \in 1..Len(allKeys) |-> exportToCSV_field(records[r], allKeys[c])],
                       ","))]

\* csvContent: [header, ...rows].join('\n')
exportToCSV_csvContent(records) ==
  LET allKeys == exportToCSV_allKeys(records)
      header == Str(ArrayJoin([c \in 1..Len(allKeys) |-> Str(<<allKeys[c]>>)], ","))
  IN  ArrayJoin(<<header>> \o exportToCSV_rows(records), "\n")

\* the rows taken in the order the table shows them
exportToCSV_sorted ==
  /\ Interactive /\ Len(downloads) < MaxExports
  /\ Events(sortConfig, downloads) < MaxReq
  /\ downloads' = IF Len(data) = 0 THEN downloads
                  ELSE Append(downloads, exportToCSV_csvContent(sortedData))
  /\ last' = Step("exportToCSV", NoRequest)
  /\ UNCHANGED <<variant, sortConfig, phase, session, core, loginUi, headUi, mergeUi, net,
                 server>>

\* the Export to CSV button: no file for an empty record set, else link.click()
\* on a Blob of csvContent
exportToCSV ==
  /\ Interactive /\ Len(downloads) < MaxExports
  /\ Events(sortConfig, downloads) < MaxReq
  /\ downloads' = IF Len(data) = 0 THEN downloads
                  ELSE Append(downloads, exportToCSV_csvContent(data))
  /\ last' = Step("exportToCSV", NoRequest)
  /\ UNCHANGED <<variant, sortConfig, phase, session, core, loginUi, headUi, mergeUi, net,
                 server>>

(* A conforming CSV reader (RFC 4180): records end at a line break, fields at a *)
(* comma; a field that opens with a double quote runs to its closing double     *)
(* quote, a doubled double quote inside it standing for one.                    *)

\* the reader after one more character c; mode "closing": the double quote just
\* read inside a quoted field ends it unless another follows
CsvStep(st, c) ==
  LET endField == [mode |-> "plain", field |-> <<>>, row |-> Append(st.row, st.field),
                   rows |-> st.rows]
      endRow == [mode |-> "plain", field |-> <<>>, row |-> <<>>,
                 rows |-> Append(st.rows, Append(st.row, st.field))]
      more(mode) == [st EXCEPT !.mode = mode, !.field = Append(st.field, c)]
  IN  IF st.mode = "quoted"
      THEN IF c = "\"" THEN [st EXCEPT !.mode = "closing"] ELSE more("quoted")
      ELSE IF st.mode = "closing" /\ c = "\"" THEN more("quoted")
      ELSE IF st.mode = "plain" /\ c = "\"" /\ st.field = <<>>
      THEN [st EXCEPT !.mode = "quoted"]
      ELSE IF c = "," THEN endField
      ELSE IF c = "\n" THEN endRow
      ELSE more("plain")

\* the reader run over text[lo..hi], a half at a time
RECURSIVE CsvScan(_, _, _, _)
CsvScan(text, lo, hi, st) ==
  IF lo > hi THEN st
  ELSE IF lo = hi THEN CsvStep(st, text[lo])
  ELSE LET mid == (lo + hi) \div 2
           half == CsvScan(text, lo, mid, st)
       IN  IF half.mode = "" THEN half ELSE CsvScan(text, mid + 1, hi, half)

\* the records of a CSV text, each a sequence of fields
CsvParse(text) ==
  LET st == CsvScan(text, 1, Len(text),
                    [mode |-> "plain", field |-> <<>>, row |-> <<>>, rows |-> <<>>])
  IN  Append(st.rows, Append(st.row, st.field))

-----------------------------------------------------------------------------
(* HEAD: AddGameModal, EditGameModal, window.confirm *)

IsHead == variant = "HEAD"

AddFailedMessage == Str(<<"Failed to add game. Please try again.">>)
UpdateFailedMessage == Str(<<"Failed to update game. Please try again.">>)
DeleteFailedMessage == Str(<<"Failed to delete game. Please try again.">>)

\* the Add Game and Add First Game buttons
OpenAddModal ==
  /\ Interactive /\ IsHead /\ AdminOnly
  /\ showAddModal' = TRUE
  /\ last' = Step("-", NoRequest)
  /\ UNCHANGED <<variant, sortConfig, downloads, phase, session, core, loginUi, isAddingGame, showEditModal,
                 isEditingGame, gameToEdit, mergeUi, net, server>>

CloseAddModal ==
  /\ Interactive /\ IsHead /\ AdminOnly /\ showAddModal
  /\ showAddModal' = FALSE
  /\ last' = Step("-", NoRequest)
  /\ UNCHANGED <<variant, sortConfig, downloads, phase, session, core, loginUi, isAddingGame, showEditModal,
                 isEditingGame, gameToEdit, mergeUi, net, server>>

\* AddGameModal's submit (disabled={isAddingGame}) and handleAddGame up to its await
handleAddGame ==
  /\ Interactive /\ IsHead /\ AdminOnly /\ showAddModal /\ ~isAddingGame
  /\ CanIssue
  /\ \E script \in AddScripts :
       LET form == Typed(EmptyForm, script)
           gameData == AddGameModal_processedData(form)
           q == AdminRequest("create", Undefined, gameData, gameData)
       IN  /\ Submittable(form)
           /\ inflight' = inflight \cup {q}
           /\ nreq' = nreq + 1
           /\ last' = Step("create", NoRequest)
  /\ isAddingGame' = TRUE
  /\ UNCHANGED <<variant, sortConfig, downloads, phase, session, core, loginUi, showAddModal, showEditModal,
                 isEditingGame, gameToEdit, mergeUi, server>>

handleAddGame_ok(r) ==
  /\ Answered(r) /\ IsHead /\ r.kind = "create" /\ r.stage = "ok"
  /\ data' = AppendGame(r.cdata, r.resp)
  /\ showAddModal' = FALSE
  /\ isAddingGame' = FALSE
  /\ inflight' = inflight \ {r}
  /\ last' = Step("CreateOk", r)
  /\ UNCHANGED <<variant, sortConfig, downloads, phase, session, isLoading, error, loginUi, showEditModal,
                 isEditingGame, gameToEdit, mergeUi, nreq, server>>

\* the failure handled without the finally: isAddingGame stays set
handleAddGame_failed_noFinally(r) ==
  /\ Answered(r) /\ IsHead /\ r.kind = "create" /\ r.stage # "ok"
  /\ error' = AddFailedMessage
  /\ loginError' = EmptyString
  /\ inflight' = Unmounted(inflight \ {r})
  /\ last' = Step("CreateFailed", r)
  /\ UNCHANGED <<variant, sortConfig, downloads, phase, session, data, isLoading, showAdminLogin,
                 headUi, mergeUi, nreq, server>>

handleAddGame_failed(r) ==
  /\ Answered(r) /\ IsHead /\ r.kind = "create" /\ r.stage # "ok"
  /\ error' = AddFailedMessage
  /\ isAddingGame' = FALSE
  /\ loginError' = EmptyString
  /\ inflight' = Unmounted(inflight \ {r})
  /\ last' = Step("CreateFailed", r)
  /\ UNCHANGED <<variant, sortConfig, downloads, phase, session, data, isLoading, showAdminLogin, showAddModal,
                 showEditModal, isEditingGame, gameToEdit, mergeUi, nreq, server>>

\* the edit button of a row
handleEditGame(game) ==
  /\ Interactive /\ IsHead /\ AdminOnly /\ game \in Rows
  /\ gameToEdit' = game
  /\ showEditModal' = TRUE
  /\ last' = Step("-", NoRequest)
  /\ UNCHANGED <<variant, sortConfig, downloads, phase, session, core, loginUi, showAddModal, isAddingGame,
                 isEditingGame, mergeUi, net, server>>

CloseEditModal ==
  /\ Interactive /\ IsHead /\ AdminOnly /\ showEditModal /\ Truthy(gameToEdit)
  /\ showEditModal' = FALSE
  /\ gameToEdit' = Null
  /\ last' = Step("-", NoRequest)
  /\ UNCHANGED <<variant, sortConfig, downloads, phase, session, core, loginUi, showAddModal, isAddingGame,
                 isEditingGame, mergeUi, net, server>>

\* EditGameModal's submit (disabled={isEditingGame}) and handleUpdateGame up to its
\* await: the body is the form's data as it is
handleUpdateGame ==
  /\ Interactive /\ IsHead /\ AdminOnly /\ showEditModal /\ Truthy(gameToEdit)
  /\ ~isEditingGame
  /\ CanIssue
  /\ \E script \in EditScripts(gameToEdit) :
       LET form == Typed(Prefill(gameToEdit), script)
           updatedGameData == EditGameModal_processedData(form, gameToEdit)
           q == AdminRequest("update", Get(updatedGameData, "id"), updatedGameData,
                             updatedGameData)
       IN  /\ Submittable(form)
           /\ inflight' = inflight \cup {q}
           /\ nreq' = nreq + 1
           /\ last' = Step("update", NoRequest)
  /\ isEditingGame' = TRUE
  /\ UNCHANGED <<variant, sortConfig, downloads, phase, session, core, loginUi, showAddModal, isAddingGame,
                 showEditModal, gameToEdit, mergeUi, server>>

handleUpdateGame_ok(r) ==
  /\ Answered(r) /\ IsHead /\ r.kind = "update" /\ r.stage = "ok"
  /\ data' = ReplaceGame(r.cdata, r.resp)
  /\ showEditModal' = FALSE
  /\ gameToEdit' = Null
  /\ isEditingGame' = FALSE
  /\ inflight' = inflight \ {r}
  /\ last' = Step("UpdateOk", r)
  /\ UNCHANGED <<variant, sortConfig, downloads, phase, session, isLoading, error, loginUi, showAddModal,
                 isAddingGame, mergeUi, nreq, server>>

handleUpdateGame_failed(r) ==
  /\ Answered(r) /\ IsHead /\ r.kind = "update" /\ r.stage # "ok"
  /\ error' = UpdateFailedMessage
  /\ isEditingGame' = FALSE
  /\ loginError' = EmptyString
  /\ inflight' = Unmounted(inflight \ {r})
  /\ last' = Step("UpdateFailed", r)
  /\ UNCHANGED <<variant, sortConfig, downloads, phase, session, data, isLoading, showAdminLogin, showAddModal,
                 isAddingGame, showEditModal, gameToEdit, mergeUi, nreq, server>>

\* the request sent whatever window.confirm answers
handleDeleteGame_unconfirmed(game, confirmed) ==
  /\ Interactive /\ IsHead /\ AdminOnly /\ game \in Rows
  /\ CanIssue
  /\ LET q == AdminRequest("delete", IdOf(game), Undefined, IdOf(game))
     IN  /\ inflight' = inflight \cup {q}
         /\ nreq' = nreq + 1
  /\ last' = Step(IF confirmed THEN "delete" ELSE "DeleteDeclined", NoRequest)
  /\ UNCHANGED <<variant, sortConfig, downloads, phase, session, core, loginUi, headUi, mergeUi,
                 server>>

\* the delete button of a row: window.confirm, and on OK handleDeleteGame up to its
\* await
handleDeleteGame(game, confirmed) ==
  /\ Interactive /\ IsHead /\ AdminOnly /\ game \in Rows
  /\ IF confirmed
     THEN /\ CanIssue
          /\ LET q == AdminRequest("delete", IdOf(game), Undefined, IdOf(game))
             IN  /\ inflight' = inflight \cup {q}
                 /\ nreq' = nreq + 1
                 /\ last' = Step("delete", NoRequest)
     ELSE /\ UNCHANGED net
          /\ last' = Step("DeleteDeclined", NoRequest)
  /\ UNCHANGED <<variant, sortConfig, downloads, phase, session, core, loginUi, headUi, mergeUi, server>>

handleDeleteGame_ok(r) ==
  /\ Answered(r) /\ IsHead /\ r.kind = "delete" /\ r.stage = "ok"
  /\ data' = RemoveGame(r.cdata, r.id)
  /\ inflight' = inflight \ {r}
  /\ last' = Step("DeleteOk", r)
  /\ UNCHANGED <<variant, sortConfig, downloads, phase, session, isLoading, error, loginUi, headUi, mergeUi,
                 nreq, server>>

handleDeleteGame_failed(r) ==
  /\ Answered(r) /\ IsHead /\ r.kind = "delete" /\ r.stage # "ok"
  /\ error' = DeleteFailedMessage
  /\ loginError' = EmptyString
  /\ inflight' = Unmounted(inflight \ {r})
  /\ last' = Step("DeleteFailed", r)
  /\ UNCHANGED <<variant, sortConfig, downloads, phase, session, data, isLoading, showAdminLogin, headUi,
                 mergeUi, nreq, server>>

-----------------------------------------------------------------------------
(* d2bc7a6: GameModal, handleSaveGame, DeleteConfirmModal *)

IsMerge == variant = "d2bc7a6"

\* the Add Game and Add First Game buttons
OpenGameModal ==
  /\ Interactive /\ IsMerge /\ AdminOnly
  /\ editingGame' = Null
  /\ showGameModal' = TRUE
  /\ last' = Step("-", NoRequest)
  /\ UNCHANGED <<variant, sortConfig, downloads, phase, session, core, loginUi, headUi, showDeleteModal,
                 isSavingGame, isDeletingGame, deletingGame, net, server>>

\* the edit button of a row
GameModal_handleEditGame(game) ==
  /\ Interactive /\ IsMerge /\ AdminOnly /\ game \in Rows
  /\ editingGame' = game
  /\ showGameModal' = TRUE
  /\ last' = Step("-", NoRequest)
  /\ UNCHANGED <<variant, sortConfig, downloads, phase, session, core, loginUi, headUi, showDeleteModal,
                 isSavingGame, isDeletingGame, deletingGame, net, server>>

CloseGameModal ==
  /\ Interactive /\ IsMerge /\ AdminOnly /\ showGameModal
  /\ showGameModal' = FALSE
  /\ editingGame' = Null
  /\ last' = Step("-", NoRequest)
  /\ UNCHANGED <<variant, sortConfig, downloads, phase, session, core, loginUi, headUi, showDeleteModal,
                 isSavingGame, isDeletingGame, deletingGame, net, server>>

\* data.find(game => game.id === id)
FindGame(games, id) ==
  IF \E i \in 1..Len(games) : SameId(games[i], id)
  THEN games[CHOOSE i \in 1..Len(games) :
               /\ SameId(games[i], id)
               /\ \A j \in 1..(i - 1) : ~SameId(games[j], id)]
  ELSE Undefined

\* the body of the PUT: a form value that is truthy (for release_year and price:
\* that is not null), else the value of the original record
handleSaveGame_dataToSend(gameData, originalGame) ==
  Obj(<< <<"title", IF Truthy(Get(gameData, "title")) THEN Get(gameData, "title")
                    ELSE Get(originalGame, "title")>>,
         <<"platform", IF Truthy(Get(gameData, "platform")) THEN Get(gameData, "platform")
                       ELSE Get(originalGame, "platform")>>,
         <<"genre", IF Truthy(Get(gameData, "genre")) THEN Get(gameData, "genre")
                    ELSE Get(originalGame, "genre")>>,
         <<"release_year", IF Get(gameData, "release_year") # Null
                           THEN Get(gameData, "release_year")
                           ELSE Get(originalGame, "release_year")>>,
         <<"price", IF Get(gameData, "price") # Null THEN Get(gameData, "price")
                    ELSE Get(originalGame, "price")>>,
         <<"region", IF Truthy(Get(gameData, "region")) THEN Get(gameData, "region")
                     ELSE Get(originalGame, "region")>>,
         <<"publisher", IF Truthy(Get(gameData, "publisher"))
                        THEN Get(gameData, "publisher")
                        ELSE Get(originalGame, "publisher")>>,
         <<"opened", Get(gameData, "opened")>> >>)

\* the fields of the body in the order their assignments run
SavedFields ==
  <<"title", "platform", "genre", "release_year", "price", "region", "publisher">>

\* the assignment of field k falls back to originalGame[k]
FallsBack(gameData, k) ==
  IF k \in {"release_year", "price"} THEN Get(gameData, k) = Null
  ELSE ~Truthy(Get(gameData, k))

\* building the body reads a property of originalGame
ReadsOriginal(gameData) ==
  \E i \in 1..Len(SavedFields) : FallsBack(gameData, SavedFields[i])

\* the property of originalGame that is read first
FirstRead(gameData) ==
  SavedFields[CHOOSE i \in 1..Len(SavedFields) :
                /\ FallsBack(gameData, SavedFields[i])
                /\ \A j \in 1..(i - 1) : ~FallsBack(gameData, SavedFields[j])]

\* the message of the TypeError the engine throws on undefined.k
TypeErrorMessage(k) ==
  <<"Cannot read properties of undefined", " (reading '", k, "')">>

\* the form GameModal submits: the edit form of editingGame, or the add form
GameModalForms ==
  IF Truthy(editingGame)
  THEN {Typed(Prefill(editingGame), script) : script \in EditScripts(editingGame)}
  ELSE {Typed(EmptyForm, script) : script \in AddScripts}

SaveFailedMessage(gameData, message) ==
  Str(<<"Failed to ", IF Truthy(Get(gameData, "id")) THEN "update" ELSE "add",
        " game: ">> \o message)

\* GameModal's submit (disabled={isSavingGame}) and handleSaveGame up to its await
handleSaveGame ==
  /\ Interactive /\ IsMerge /\ AdminOnly /\ showGameModal /\ ~isSavingGame
  /\ \E form \in GameModalForms :
       LET gameData == GameModal_processedData(form, editingGame)
           isEditing == Truthy(Get(gameData, "id"))
           originalGame == FindGame(data, Get(gameData, "id"))
       IN  /\ Submittable(form)
           /\ \/ /\ isEditing /\ originalGame = Undefined /\ ReadsOriginal(gameData)
                 \* TypeError: caught, setError, finally setIsSavingGame(false)
                 /\ error' = SaveFailedMessage(gameData,
                                TypeErrorMessage(FirstRead(gameData)))
                 /\ loginError' = EmptyString
                 /\ inflight' = Unmounted(inflight)
                 /\ last' = Step("SaveThrew", NoRequest)
                 /\ UNCHANGED <<isSavingGame, nreq>>
              \/ /\ isEditing /\ ~(originalGame = Undefined /\ ReadsOriginal(gameData))
                 /\ CanIssue
                 /\ LET q == AdminRequest("update", Get(gameData, "id"),
                               handleSaveGame_dataToSend(gameData, originalGame),
                               gameData)
                    IN  /\ inflight' = inflight \cup {q}
                        /\ nreq' = nreq + 1
                        /\ last' = Step("update", NoRequest)
                 /\ isSavingGame' = TRUE
                 /\ UNCHANGED <<error, loginError>>
              \/ /\ ~isEditing
                 /\ CanIssue
                 /\ LET q == AdminRequest("create", Undefined, Without(gameData, "id"),
                               gameData)
                    IN  /\ inflight' = inflight \cup {q}
                        /\ nreq' = nreq + 1
                        /\ last' = Step("create", NoRequest)
                 /\ isSavingGame' = TRUE
                 /\ UNCHANGED <<error, loginError>>
  /\ UNCHANGED <<variant, sortConfig, downloads, phase, session, data, isLoading, showAdminLogin, headUi,
                 showGameModal, showDeleteModal, isDeletingGame, editingGame,
                 deletingGame, server>>

handleSaveGame_ok(r) ==
  /\ Answered(r) /\ IsMerge /\ r.kind \in {"create", "update"} /\ r.stage = "ok"
  /\ data' = IF r.kind = "update" THEN ReplaceGame(r.cdata, r.resp)
             ELSE AppendGame(r.cdata, r.resp)
  /\ showGameModal' = FALSE
  /\ editingGame' = Null
  /\ isSavingGame' = FALSE
  /\ inflight' = inflight \ {r}
  /\ last' = Step(IF r.kind = "update" THEN "UpdateOk" ELSE "CreateOk", r)
  /\ UNCHANGED <<variant, sortConfig, downloads, phase, session, isLoading, error, loginUi, headUi,
                 showDeleteModal, isDeletingGame, deletingGame, nreq, server>>

\* the message of the Error thrown for a status that is not ok, of the SyntaxError
\* of response.json(), or of the TypeError of a fetch that got no answer
handleSaveGame_message(r) ==
  IF r.stage = "status"
  THEN <<"Failed to ", IF r.kind = "update" THEN "update" ELSE "add", " game: ",
         r.status, " - ">> \o r.resp.s
  ELSE IF r.stage = "badjson" THEN JsonSyntaxMessage
  ELSE FailedToFetch.s

handleSaveGame_failed(r) ==
  /\ Answered(r) /\ IsMerge /\ r.kind \in {"create", "update"} /\ r.stage # "ok"
  /\ error' = Str(<<"Failed to ", IF r.kind = "update" THEN "update" ELSE "add",
                    " game: ">> \o handleSaveGame_message(r))
  /\ isSavingGame' = FALSE
  /\ loginError' = EmptyString
  /\ inflight' = Unmounted(inflight \ {r})
  /\ last' = Step(IF r.kind = "update" THEN "UpdateFailed" ELSE "CreateFailed", r)
  /\ UNCHANGED <<variant, sortConfig, downloads, phase, session, data, isLoading, showAdminLogin, headUi,
                 showGameModal, showDeleteModal, isDeletingGame, editingGame,
                 deletingGame, nreq, server>>

\* the delete button of a row
handleDeleteClick(game) ==
  /\ Interactive /\ IsMerge /\ AdminOnly /\ game \in Rows
  /\ deletingGame' = game
  /\ showDeleteModal' = TRUE
  /\ last' = Step("-", NoRequest)
  /\ UNCHANGED <<variant, sortConfig, downloads, phase, session, core, loginUi, headUi, showGameModal,
                 isSavingGame, isDeletingGame, editingGame, net, server>>

\* Cancel (disabled={isDeletingGame}) and the close button of DeleteConfirmModal
CloseDeleteModal ==
  /\ Interactive /\ IsMerge /\ AdminOnly /\ showDeleteModal
  /\ showDeleteModal' = FALSE
  /\ deletingGame' = Null
  /\ last' = Step("DeleteCancelled", NoRequest)
  /\ UNCHANGED <<variant, sortConfig, downloads, phase, session, core, loginUi, headUi, showGameModal,
                 isSavingGame, isDeletingGame, editingGame, net, server>>

\* Delete of DeleteConfirmModal (disabled={isDeletingGame}): handleDeleteGame up
\* to its await
DeleteConfirmModal_handleDeleteGame ==
  /\ Interactive /\ IsMerge /\ AdminOnly /\ showDeleteModal /\ ~isDeletingGame
  /\ Truthy(deletingGame)
  /\ CanIssue
  /\ LET q == AdminRequest("delete", IdOf(deletingGame), Undefined, Undefined)
     IN  /\ inflight' = inflight \cup {q}
         /\ nreq' = nreq + 1
         /\ last' = Step("delete", NoRequest)
  /\ isDeletingGame' = TRUE
  /\ UNCHANGED <<variant, sortConfig, downloads, phase, session, core, loginUi, headUi, showGameModal,
                 showDeleteModal, isSavingGame, editingGame, deletingGame, server>>

DeleteConfirmModal_ok(r) ==
  /\ Answered(r) /\ IsMerge /\ r.kind = "delete" /\ r.stage = "ok"
  /\ data' = RemoveGame(r.cdata, r.id)
  /\ showDeleteModal' = FALSE
  /\ deletingGame' = Null
  /\ isDeletingGame' = FALSE
  /\ inflight' = inflight \ {r}
  /\ last' = Step("DeleteOk", r)
  /\ UNCHANGED <<variant, sortConfig, downloads, phase, session, isLoading, error, loginUi, headUi,
                 showGameModal, isSavingGame, editingGame, nreq, server>>

DeleteConfirmModal_failed(r) ==
  /\ Answered(r) /\ IsMerge /\ r.kind = "delete" /\ r.stage # "ok"
  /\ error' = DeleteFailedMessage
  /\ isDeletingGame' = FALSE
  /\ loginError' = EmptyString
  /\ inflight' = Unmounted(inflight \ {r})
  /\ last' = Step("DeleteFailed", r)
  /\ UNCHANGED <<variant, sortConfig, downloads, phase, session, data, isLoading, showAdminLogin, headUi,
                 showGameModal, showDeleteModal, isSavingGame, editingGame,
                 deletingGame, nreq, server>>

-----------------------------------------------------------------------------
(* What the main return shows of the admin's controls *)

\* the Add Game button of the header and the Add First Game button
ShowsAddButton == View = "main" /\ AdminOnly

\* the Actions heading and the edit and delete buttons of the rows
ShowsActions == View = "main" /\ Len(data) > 0 /\ AdminOnly

\* AddGameModal; GameModal without a record
ShowsAddDialog ==
  /\ View = "main" /\ AdminOnly
  /\ IF IsHead THEN showAddModal ELSE showGameModal /\ ~Truthy(editingGame)

\* EditGameModal, which needs gameToEdit; GameModal with a record
ShowsEditDialog ==
  /\ View = "main" /\ AdminOnly
  /\ IF IsHead THEN showEditModal /\ Truthy(gameToEdit)
     ELSE showGameModal /\ Truthy(editingGame)

\* DeleteConfirmModal
ShowsDeleteDialog == View = "main" /\ AdminOnly /\ IsMerge /\ showDeleteModal

-----------------------------------------------------------------------------
(* The specification *)

Confirmations == BOOLEAN

Next ==
  \/ Mount
  \/ \E r \in inflight : ServerOk(r) \/ ServerRejects(r) \/ ServerGarbles(r)
                              \/ NetworkFails(r)
  \/ Retry
  \/ \E r \in inflight : FetchOk(r) \/ FetchFailed(r)
  \/ OpenLogin \/ CloseLogin \/ SubmitLogin
  \/ \E r \in inflight : LoginOk(r) \/ LoginFailed(r)
  \/ handleAdminLogout
  \/ OpenAddModal \/ CloseAddModal \/ handleAddGame
  \/ \E r \in inflight : handleAddGame_ok(r) \/ handleAddGame_failed(r)
  \/ \E game \in Rows : handleEditGame(game)
  \/ CloseEditModal \/ handleUpdateGame
  \/ \E r \in inflight : handleUpdateGame_ok(r) \/ handleUpdateGame_failed(r)
  \/ \E game \in Rows, confirmed \in Confirmations : handleDeleteGame(game, confirmed)
  \/ \E r \in inflight : handleDeleteGame_ok(r) \/ handleDeleteGame_failed(r)
  \/ OpenGameModal \/ CloseGameModal
  \/ \E game \in Rows : GameModal_handleEditGame(game)
  \/ handleSaveGame
  \/ \E r \in inflight : handleSaveGame_ok(r) \/ handleSaveGame_failed(r)
  \/ \E game \in Rows : handleDeleteClick(game)
  \/ CloseDeleteModal \/ DeleteConfirmModal_handleDeleteGame
  \/ \E r \in inflight : DeleteConfirmModal_ok(r) \/ DeleteConfirmModal_failed(r)
  \/ \E i \in 1..Len(getColumnHeaders) : handleSort(getColumnHeaders[i])
  \/ exportToCSV

Spec == Init /\ [][Next]_vars

\* the same application over runs of at most MaxSortReq requests
NextSort == Next /\ nreq' <= MaxSortReq

SortSpec == Init /\ [][NextSort]_vars

\* the session an earlier visit left in localStorage
StoredSession == [admin_token |-> Token0, admin_user |-> Str(JsonStringify(User1))]

\* the admin's page once the session is restored and the listing of the server's
\* game table loaded
Loaded(table) ==
  /\ variant \in Variants
  /\ phase = "up"
  /\ storage = StoredSession
  /\ isAdmin = Restore(storage).admin
  /\ adminUser = Restore(storage).user
  /\ adminToken = Restore(storage).token
  /\ serverGames = table /\ nextId = Cardinality(GamePool) + 1
  /\ data = fetchGames_data([a |-> serverGames])
  /\ isLoading = FALSE /\ error = Null
  /\ sortConfig = [key |-> Null, direction |-> "asc"]
  /\ downloads = <<>>
  /\ showAdminLogin = FALSE /\ loginError = EmptyString
  /\ showAddModal = FALSE /\ isAddingGame = FALSE
  /\ showEditModal = FALSE /\ isEditingGame = FALSE /\ gameToEdit = Null
  /\ showGameModal = FALSE /\ showDeleteModal = FALSE
  /\ isSavingGame = FALSE /\ isDeletingGame = FALSE
  /\ editingGame = Null /\ deletingGame = Null
  /\ inflight = {} /\ nreq = 1
  /\ last = Step("FetchOk",
                 Answer(Request(1, "fetch", Undefined, Undefined, Undefined, Undefined,
                                <<>>),
                        "ok", "200", [a |-> serverGames]))

\* the server holding one of the game tables
InitTable == \E table \in GameTables : Loaded(table)

\* the table sorted by any of its headings, and exported
NextTable ==
  \/ \E i \in 1..Len(getColumnHeaders) : handleSort(getColumnHeaders[i])
  \/ exportToCSV

TableSpec == InitTable /\ [][NextTable]_vars

\* a game table whose records differ in their columns
MixedGames == <<Game3, Game4>>

InitRecords == Loaded(MixedGames)

\* that table under the admin's requests, over runs of at most MaxSortReq requests,
\* files and heading clicks in all
NextRecords == Next /\ Events(sortConfig, downloads)' <= MaxSortReq

RecordsSpec == InitRecords /\ [][NextRecords]_vars

-----------------------------------------------------------------------------
(* Properties *)

\* C1: a create, update or delete request is issued only while the admin session
\* is active and a token is held, and its Authorization header is "Bearer "
\* followed by exactly the token held when the request is issued
C1_MutationCarriesHeldToken ==
  last.op \in Mutating =>
    /\ isAdmin
    /\ IsStr(adminToken)
    /\ Issued.kind = last.op
    /\ Issued.auth = Str(<<"Bearer ">> \o adminToken.s)

\* a delete issued under the token of a login made in this page
C1_Witness ==
  /\ last.op = "delete"
  /\ isAdmin /\ adminToken = Token1
  /\ Issued.auth = Str(<<"Bearer ", "t1">>)

\* C2: a login answered with a status that is not ok changes neither the admin
\* flag, nor the token, nor the user, nor storage, and the login dialog shows
\* "Invalid admin credentials"
C2_RejectedLoginLeavesNoSession ==
  [][(last'.op = "LoginFailed" /\ last'.req.stage = "status") =>
       /\ UNCHANGED <<isAdmin, adminToken, adminUser, storage>>
       /\ loginError' = Str(<<"Invalid admin credentials">>)]_vars

\* C3: after a login answered ok with (token, user), the token and the user in
\* memory are those of the answer, the admin flag is set, admin_token holds the
\* token and admin_user holds the JSON text of the user
C3_LoginInstallsSession ==
  last.op = "LoginOk" =>
    LET token == Get(last.req.resp, "access_token")
        user == Get(last.req.resp, "user")
    IN  /\ adminToken = token
        /\ adminUser = user
        /\ isAdmin
        /\ storage.admin_token = token
        /\ storage.admin_user = Str(JsonStringify(user))
        /\ JsonParse(storage.admin_user.s) = [ok |-> TRUE, value |-> user]

\* a login answered ok with the token "t1" and the user {"name":"ad"}
C3_Witness ==
  /\ last.op = "LoginOk"
  /\ adminToken = Token1 /\ adminUser = User1 /\ isAdmin
  /\ storage.admin_token = Token1
  /\ IsStr(storage.admin_user)

\* C4: a logout leaves the token and the user null, the admin flag cleared and
\* both storage keys absent, and issues no request
C4_LogoutClearsSession ==
  [][last'.op = "Logout" =>
       /\ adminToken' = Null /\ adminUser' = Null /\ ~isAdmin'
       /\ storage'.admin_token = NoItem /\ storage'.admin_user = NoItem
       /\ UNCHANGED <<inflight, nreq>>]_vars

\* a logout while a mutation is outstanding
C4_Witness ==
  /\ last.op = "Logout"
  /\ \E r \in inflight : r.kind \in Mutating
  /\ ~isAdmin /\ adminToken = Null /\ storage = EmptyStorage

\* C5: the mount leaves a session (token, parsed user, admin flag) if and only if
\* storage holds both keys and admin_user parses; otherwise the application is up
\* with the admin flag cleared and the token null
C5_SessionRestoredIffStoredAndParses ==
  last.op \in {"mount", "crash"} =>
    LET savedToken == storage.admin_token
        savedUser == storage.admin_user
    IN  IF savedToken # NoItem /\ savedUser # NoItem /\ JsonParse(savedUser.s).ok
        THEN /\ phase = "up" /\ isAdmin
             /\ adminToken = savedToken
             /\ adminUser = JsonParse(savedUser.s).value
        ELSE /\ phase = "up" /\ ~isAdmin
             /\ adminToken = Null

\* C6: no step takes storage holding both keys or neither to storage holding
\* exactly one of them
C6_StorageKeysStayPaired ==
  [][((storage.admin_token = NoItem) <=> (storage.admin_user = NoItem)) =>
       ((storage'.admin_token = NoItem) <=> (storage'.admin_user = NoItem))]_vars

\* a login, a logout and a second login, each having written storage
C6_Witness ==
  /\ last.op = "LoginOk" /\ last.req.rid > 2
  /\ storage.admin_token # NoItem /\ storage.admin_user # NoItem

\* C7: after a fetch answered ok the local records are exactly the sequence of the
\* answer, the error is cleared and loading is cleared
C7_FetchReplacesData ==
  last.op = "FetchOk" =>
    /\ data = last.req.resp.a
    /\ error = Null
    /\ ~isLoading

\* a retry answered ok after a failure that left an error over records already held
C7_Witness ==
  /\ last.op = "FetchOk" /\ last.req.rid > 1
  /\ Len(data) > 0 /\ data = last.req.resp.a
  /\ error = Null /\ View = "main"

\* C8: a fetch that fails sets the error, clears loading, leaves the records as
\* they were and shows the error panel with Retry; Retry issues a fetch and the
\* view becomes the loading one
C8_FetchFailureShowsRetry ==
  [][/\ last'.op = "FetchFailed" =>
          /\ Truthy(error') /\ ~isLoading'
          /\ data' = data
          /\ phase' = "up" /\ View' = "error"
     /\ last'.op = "retry" =>
          /\ View = "error" /\ View' = "loading"
          /\ \E f \in inflight' \ inflight : f.kind = "fetch" /\ f.stage = "sent"]_vars

\* a fetch started by Retry fails in its turn, records being held: they are kept
\* and the error panel is back
C8_Witness ==
  /\ last.op = "FetchFailed" /\ last.req.rid > 1
  /\ Len(data) > 0
  /\ error = FetchFailedMessage /\ ~isLoading /\ View = "error"

\* C9: a create answered ok leaves the records held just before the answer was
\* taken, with the returned record appended
C9_CreateAppendsToCurrentData ==
  [][last'.op = "CreateOk" => data' = Append(data, last'.req.resp)]_vars

\* C10: the body of an update holds, for each of title, platform, genre, region,
\* publisher, release_year and price, the value the form handed over if it is
\* present and not empty, else that of the local record; opened is a boolean
C10_UpdateBodyFallsBackToRecord ==
  last.op = "update" =>
    LET q == Issued
        existing == FindGame(data, q.id)
    IN  existing # Undefined =>
          /\ \A k \in {"title", "platform", "genre", "region", "publisher",
                       "release_year", "price"} :
               Get(q.body, k) = IF Get(q.arg, k) \in {Null, Undefined, EmptyString}
                                THEN Get(existing, k) ELSE Get(q.arg, k)
          /\ IsBool(Get(q.body, "opened"))

\* C11: an update answered ok leaves a sequence of the same length and order as
\* the one held just before the answer was taken: the element with the returned
\* record's id is the returned record, every other element is as it was
C11_UpdateReplacesInPlace ==
  [][last'.op = "UpdateOk" =>
       /\ Len(data') = Len(data)
       /\ \A i \in 1..Len(data) :
            data'[i] = IF IdOf(data[i]) = IdOf(last'.req.resp) THEN last'.req.resp
                       ELSE data[i]]_vars

\* C12: a DELETE is issued only by the user's confirmation for that record (OK of
\* window.confirm for the row, or Delete in the dialog that names the record);
\* declining or cancelling issues nothing and leaves the records and the error
C12_DeleteOnlyAfterConfirmation ==
  [][/\ \A q \in inflight' \ inflight :
          (q.kind = "delete" /\ q.stage = "sent") =>
            /\ last'.op = "delete"
            /\ \E i \in 1..Len(data) : IdOf(data[i]) = q.id
            /\ IsMerge => (showDeleteModal /\ deletingGame # Null
                           /\ q.id = IdOf(deletingGame))
     /\ last'.op \in {"DeleteDeclined", "DeleteCancelled"} =>
          UNCHANGED <<inflight, nreq, data, error>>]_vars

\* Delete pressed in the dialog that names the record: the DELETE for it is out
C12_Witness ==
  /\ last.op = "delete" /\ IsMerge
  /\ showDeleteModal /\ isDeletingGame
  /\ Issued.kind = "delete" /\ Issued.id = IdOf(deletingGame)

\* C13: a delete of record X answered ok leaves the records held just before the
\* answer was taken, X removed: nothing else dropped, added or reordered
C13_DeleteRemovesExactlyOne ==
  [][last'.op = "DeleteOk" =>
       data' = SelectSeq(data, LAMBDA g : IdOf(g) # last'.req.id)]_vars

\* C14: a create, update or delete that fails (status not ok, no answer, a body
\* that does not parse) ends in its handler: a message is set, the records are
\* kept, the in-progress flag of the operation is cleared, the application is up
C14_MutationFailureIsCaught ==
  [][/\ \A r \in inflight \ inflight' :
          (r.kind \in Mutating /\ r.stage \notin {"sent", "ok"}
             /\ ~(r.kind = "delete" /\ r.stage = "badjson")) =>
            last' = Step(CASE r.kind = "create" -> "CreateFailed"
                           [] r.kind = "update" -> "UpdateFailed"
                           [] r.kind = "delete" -> "DeleteFailed", r)
     /\ last'.op \in {"CreateFailed", "UpdateFailed", "DeleteFailed", "SaveThrew"} =>
          /\ IsStr(error') /\ Len(error'.s) > 0
          /\ data' = data
          /\ phase' = "up"
          /\ last'.op = "CreateFailed" => ~(IF IsHead THEN isAddingGame' ELSE isSavingGame')
          /\ last'.op \in {"UpdateFailed", "SaveThrew"} =>
               ~(IF IsHead THEN isEditingGame' ELSE isSavingGame')
          /\ (last'.op = "DeleteFailed" /\ IsMerge) => ~isDeletingGame']_vars

\* a create whose answer does not parse: the message set, the flag cleared
C14_Witness ==
  /\ last.op = "CreateFailed" /\ last.req.stage = "badjson"
  /\ IsHead /\ error = AddFailedMessage /\ ~isAddingGame
  /\ Len(data) > 0

\* C15: after a create, update or delete that failed the main view is still the
\* one displayed, not the error panel
C15_MutationFailureKeepsView ==
  last.op \in {"CreateFailed", "UpdateFailed", "DeleteFailed"} => View = "main"

\* C16: every failed login leaves "Invalid admin credentials" in the dialog that
\* was submitted, whatever the failure
C16_LoginFailureMessageIsUniform ==
  (last.op = "LoginFailed" /\ last.req.alive) =>
    loginError = Str(<<"Invalid admin credentials">>)

\* C17: of the login form, the add form and the edit form each has at most one
\* request outstanding
C17_OneRequestPerForm ==
  \A kind \in {"login", "create", "update"} :
    Cardinality({r \in inflight : r.kind = kind}) <= 1

\* C18: a click on heading K gives (K, asc) when the key was not K, (K, desc) when
\* the configuration was (K, asc), and (K, asc) when it was (K, desc)
C18_SortClickTransitions ==
  [][last'.op = "handleSort" =>
       LET K == last'.req.arg
       IN  sortConfig' =
             IF sortConfig.key # K THEN [key |-> K, direction |-> "asc"]
             ELSE IF sortConfig.direction = "asc" THEN [key |-> K, direction |-> "desc"]
             ELSE [key |-> K, direction |-> "asc"]]_vars

\* the second click on the title heading: descending
C18_Witness ==
  /\ last.op = "handleSort" /\ last.req.arg = Str(<<"title">>)
  /\ sortConfig = [key |-> Str(<<"title">>), direction |-> "desc"]

\* C19: a click on a heading leaves a sort key, and no later step of any kind
\* takes the sort key away
C19_SortKeyStaysSet ==
  [][/\ last'.op = "handleSort" => Truthy(sortConfig'.key)
     /\ sortConfig.key # Null => sortConfig'.key # Null]_vars

\* the table was sorted, then its only record deleted: the key is still set
C19_Witness ==
  /\ last.op = "DeleteOk" /\ Len(data) = 0
  /\ sortConfig.key # Null

\* C20: a click on a heading leaves the records held as they are; the rows shown
\* are a permutation of them, and the records themselves without a sort key
C20_SortLeavesData ==
  /\ [][last'.op = "handleSort" => data' = data]_vars
  /\ [](LET rows == sortedData
        IN  /\ Len(rows) = Len(data)
            /\ \A i \in 1..Len(data) :
                 Cardinality({j \in 1..Len(data) : rows[j] = data[i]})
                   = Cardinality({j \in 1..Len(data) : data[j] = data[i]})
            /\ sortConfig.key = Null => rows = data)

\* the rows shown in another order than the records held
C20_Witness ==
  /\ last.op = "handleSort" /\ sortConfig.key # Null
  /\ Len(data) > 1 /\ sortedData # data
  /\ sortedData = Reversed(data)

\* what the claims about the sorted table and the export speak of

\* the values of column k are pairwise distinct and form a total order under `<`
TotalOrdered(records, k) ==
  LET v(i) == Get(records[i], k)
      n == Len(records)
  IN  /\ \A i, j \in 1..n :
           i # j => /\ v(i) # v(j)
                    /\ LessThan(v(i), v(j)) # LessThan(v(j), v(i))
      /\ \A i, j, l \in 1..n :
           LessThan(v(i), v(j)) /\ LessThan(v(j), v(l)) => LessThan(v(i), v(l))

SortedBy(k, direction) ==
  sortedData_of(data, [key |-> Str(<<k>>), direction |-> direction])

\* C21: for a non-empty record set and a column whose values are pairwise
\* distinct and totally ordered, the rows sorted descending are the rows sorted
\* ascending in reverse
C21_DescendingIsReverseOfAscending ==
  \A c \in 1..Len(getColumnHeaders) :
    LET K == getColumnHeaders[c]
    IN  Len(data) > 0 /\ TotalOrdered(data, K) =>
          SortedBy(K, "desc") = Reversed(SortedBy(K, "asc"))

\* three records sorted by title, descending, in an order that is neither the
\* stored one nor its reverse
C21_Witness ==
  /\ last.op = "handleSort"
  /\ sortConfig = [key |-> Str(<<"title">>), direction |-> "desc"]
  /\ Len(data) = 3 /\ TotalOrdered(data, "title")
  /\ sortedData # data /\ sortedData # Reversed(data)
  /\ sortedData = Reversed(SortedBy("title", "asc"))

\* the file exported last
Exported == downloads[Len(downloads)]
JustExported == last.op = "exportToCSV" /\ Len(data) > 0 /\ Len(downloads) > 0

\* where key k is met first: the record, and the place among that record's keys
FirstRecordWith(k) == CHOOSE r \in 1..Len(data) :
                        /\ HasKey(data[r], k)
                        /\ \A q \in 1..(r - 1) : ~HasKey(data[q], k)
PlaceIn(x, k) == CHOOSE i \in 1..Len(x.o) : x.o[i][1] = k
MetBefore(k1, k2) ==
  \/ FirstRecordWith(k1) < FirstRecordWith(k2)
  \/ /\ FirstRecordWith(k1) = FirstRecordWith(k2)
     /\ PlaceIn(data[FirstRecordWith(k1)], k1) < PlaceIn(data[FirstRecordWith(k2)], k2)

\* the text up to the first line break
RECURSIVE FirstLine(_)
FirstLine(text) ==
  IF text = <<>> \/ Head(text) = "\n" THEN <<>> ELSE <<Head(text)>> \o FirstLine(Tail(text))

\* C22: the header line of the export is the keys of the records, in the order
\* they are first met, joined by commas and unquoted; the export has one data row
\* per record, in the order of the record set, with one field per column
C22_CsvHeaderAndRows ==
  JustExported =>
    LET rows == CsvParse(Exported)
        cols == rows[1]
    IN  /\ \A r \in 1..Len(data) : \A i \in 1..Len(data[r].o) :
             \E c \in 1..Len(cols) : cols[c] = <<data[r].o[i][1]>>
        /\ \A c \in 1..Len(cols) :
             /\ Len(cols[c]) = 1
             /\ \E r \in 1..Len(data) : HasKey(data[r], cols[c][1])
             /\ \A d \in 1..(c - 1) : MetBefore(cols[d][1], cols[c][1])
        /\ FirstLine(Exported) =
             [i \in 1..(2 * Len(cols) - 1) |->
                IF i % 2 = 1 THEN cols[(i + 1) \div 2][1] ELSE ","]
        /\ Len(rows) = Len(data) + 1
        /\ \A r \in 1..Len(data) :
             /\ Len(rows[r + 1]) = Len(cols)
             /\ \A c \in 1..Len(cols) :
                  cols[c] = <<"id">> => rows[r + 1][c] = StringOf(IdOf(data[r])).s

\* the field the claim gives for a value
FieldFor(item, key) ==
  LET value == Get(item, key)
  IN  IF ~HasKey(item, key) \/ value = Null \/ value = Undefined THEN <<>>
      ELSE IF IsStr(value) /\ (\E i \in 1..Len(value.s) : value.s[i] \in {",", "\""})
      THEN <<"\"">> \o DoubleQuotes(value.s) \o <<"\"">>
      ELSE StringOf(value).s

\* texts put one after the other with a separator between them
RECURSIVE Joined(_, _)
Joined(texts, separator) ==
  IF texts = <<>> THEN <<>>
  ELSE IF Len(texts) = 1 THEN texts[1]
  ELSE texts[1] \o <<separator>> \o Joined(Tail(texts), separator)

\* C23: the field of a record for a column is empty when the record lacks the key
\* or holds null there, is the value in double quotes with its double quotes
\* doubled when the value is a string with a comma or a double quote, and is the
\* value's string form otherwise
C23_CsvFieldRule ==
  JustExported =>
    LET cols == exportToCSV_allKeys(data)
        line(r) == Joined([c \in 1..Len(cols) |-> FieldFor(data[r], cols[c])], ",")
        head == Joined([c \in 1..Len(cols) |-> <<cols[c]>>], ",")
    IN  Exported = Joined(<<head>> \o [r \in 1..Len(data) |-> line(r)], "\n")

\* an export of records with a quoted title, an absent key, null, numbers and
\* booleans
C23_Witness ==
  /\ JustExported /\ Len(data) = 3
  /\ \E i, j \in 1..3 : data[i] = Game2 /\ data[j] = Game3
  /\ \E i \in 1..Len(Exported) - 2 :
       Exported[i] = "\"" /\ Exported[i + 1] = "\"" /\ Exported[i + 2] = "a"

\* C24: a conforming CSV reader gets from the export, for every record and
\* column, the string form of the value (nothing for null or an absent key), in
\* as many rows and fields as there are records and columns
C24_CsvRoundTrips ==
  JustExported =>
    LET cols == exportToCSV_allKeys(data)
    IN  CsvParse(Exported) =
          <<[c \in 1..Len(cols) |-> <<cols[c]>>]>> \o
          [r \in 1..Len(data) |->
             [c \in 1..Len(cols) |->
                LET value == Get(data[r], cols[c])
                IN  IF IsNullish(value) THEN <<>> ELSE StringOf(value).s]]

\* C30: the files exported are the export of the records in their stored order,
\* whatever the sort was when each was exported, and there is none for an empty
\* record set
C30_ExportIgnoresSort ==
  /\ Len(data) = 0 => downloads = <<>>
  /\ \A i \in 1..Len(downloads) :
       downloads[i] = exportToCSV_csvContent(sortedData_of(data, [key |-> Null,
                                                                  direction |-> "asc"]))
  /\ \A i, j \in 1..Len(downloads) : downloads[i] = downloads[j]

\* an export made with the table showing another order than the stored one
C30_Witness ==
  /\ last.op = "exportToCSV" /\ Len(downloads) = 1 /\ Len(data) > 1
  /\ Truthy(sortConfig.key) /\ sortedData # data

\* C25: the headings of the table are the keys that occur in a record, each once
\* and no other, also when the records differ in their keys, in every state the
\* listing and the admin's requests lead to; there is no heading exactly when
\* there is no record
C25_HeadersAreTheKeys ==
  LET headers == getColumnHeaders
  IN  /\ \A r \in 1..Len(data) : \A i \in 1..Len(data[r].o) :
           Cardinality({c \in 1..Len(headers) : headers[c] = data[r].o[i][1]}) = 1
      /\ \A c \in 1..Len(headers) : \E r \in 1..Len(data) : HasKey(data[r], headers[c])
      /\ Len(headers) = 0 <=> Len(data) = 0

\* a record created next to one without the region column and one with a column
\* of its own
C25_Witness ==
  /\ last.op = "CreateOk" /\ Len(data) = 3
  /\ data[1] = Game3 /\ data[2] = Game4
  /\ \E c \in 1..Len(getColumnHeaders) : getColumnHeaders[c] = "notes"
  /\ \E c \in 1..Len(getColumnHeaders) : getColumnHeaders[c] = "region"

\* C26: the Add Game button, the Actions column and the add, edit and delete
\* dialogs are shown only while the admin session is active, and none of them
\* is shown after a logout, whatever dialog was open
C26_AdminControlsOnlyForAdmin ==
  LET shown == \/ ShowsAddButton \/ ShowsActions
               \/ ShowsAddDialog \/ ShowsEditDialog \/ ShowsDeleteDialog
  IN  /\ shown => isAdmin /\ Truthy(adminToken)
      /\ last.op = "Logout" => ~shown

\* logged out with the edit dialog open
C26_Witness ==
  /\ last.op = "Logout" /\ View = "main" /\ Len(data) > 0
  /\ IF IsHead THEN showEditModal /\ Truthy(gameToEdit)
     ELSE showGameModal /\ Truthy(editingGame)
  /\ ~ShowsEditDialog /\ ~ShowsActions

\* C27: no two records held share an id
C27_IdsAreUnique ==
  \A i, j \in 1..Len(data) : i # j => IdOf(data[i]) # IdOf(data[j])

\* a record created while another request of the admin is outstanding
C27_Witness ==
  /\ last.op = "CreateOk" /\ Len(data) = 2
  /\ \E r \in inflight : r.kind \in Mutating

\* C28: with no request outstanding and no request having failed since the
\* listing was loaded, the records held are the records of the server
C28_NoAcknowledgedMutationLost ==
  phase = "up" /\ ~isLoading /\ error = Null /\ inflight = {} =>
    /\ Len(data) = Len(serverGames)
    /\ {data[i] : i \in 1..Len(data)} = {serverGames[i] : i \in 1..Len(serverGames)}

\* C29 as stated: once the page is up and storage holds both keys or neither, the
\* admin flag is set exactly when both are stored, and then the token held is the
\* stored token and the user held the stored user, decoded
C29_SessionAgreesWithStorage ==
  LET hasToken == storage.admin_token # NoItem
      hasUser == storage.admin_user # NoItem
  IN  phase = "up" /\ (hasToken <=> hasUser) =>
        /\ isAdmin <=> hasToken /\ hasUser
        /\ isAdmin => /\ adminToken = storage.admin_token
                      /\ JsonParse(storage.admin_user.s).ok
                      /\ adminUser = JsonParse(storage.admin_user.s).value

\* C29, amended: once the page is up and storage holds both keys or neither, the
\* admin flag is set exactly when both are stored with a text that is not empty,
\* and then the token held is the stored token and the user held the stored user,
\* decoded
C29_SessionAgreesWithNonEmptyStorage ==
  LET hasToken == storage.admin_token # NoItem
      hasUser == storage.admin_user # NoItem
  IN  phase = "up" /\ (hasToken <=> hasUser) =>
        /\ isAdmin <=> /\ hasToken /\ storage.admin_token # EmptyString
                       /\ hasUser /\ storage.admin_user # EmptyString
        /\ isAdmin => /\ adminToken = storage.admin_token
                      /\ JsonParse(storage.admin_user.s).ok
                      /\ adminUser = JsonParse(storage.admin_user.s).value

\* the session of an earlier visit restored when the page is opened
C29_Witness ==
  /\ last.op = "mount" /\ isAdmin
  /\ adminToken = Token0 /\ adminUser = User1
  /\ storage.admin_token = Token0

=============================================================================
